---- MODULE Spec2Model ----
(***************************************************************************)
(* Model of the Vault recurring jobs of internal/credential/vault          *)
(* (TokenRenewalJob, TokenRevocationJob, CredentialRenewalJob,             *)
(* CredentialRevocationJob): the running guard, the batch selection, the   *)
(* per-item processing and the status / expiration writes.                 *)
(*                                                                         *)
(* Time is counted in minutes.  A job instance is named by its job kind;   *)
(* an invocation of Run is a pair <<job, n>>.  ctx.Err() is an input read  *)
(* at each of its call sites.                                              *)
(*                                                                         *)
(* Spec      one job kind, its runs one after the other, every outcome of  *)
(*           the collaborators (kms, Vault, writer.Exec).                  *)
(* SpecLive  the runs of Spec with every collaborator call returning (weak *)
(*           fairness of the steps of each invocation).                    *)
(* SpecSame  overlapping invocations of one job instance.                  *)
(* SpecCross overlapping runs of the two job kinds of a family.            *)
(* SpecNextRun  the calls of NextRunIn, over every result of its query.    *)
(* SpecExtract  the calls of userpassword.Extract, over the secret data.   *)
(* SpecLookup   the calls of iam.Repository.LookupUser over the user table.*)
(***************************************************************************)
EXTENDS Integers, Sequences, FiniteSets, TLC

\* ---------------------------------------------------------------- bounds
NumTokens == 2

NumCreds == 2

MaxInv == 2

MaxConcurrent == 2

Limit == 2

MaxNow == 1

MaxRows == 2

TTLs == {20}

MaxRenewalIn == 30

NumStrings == 1

NumUsers == 2

\* ------------------------------------------------------ program constants
renewalWindow == 10

defaultNextRunIn == 5

tokenRenewalJobName == "vault_token_renewal"

tokenRevocationJobName == "vault_token_revocation"

credentialRenewalJobName == "vault_credential_renewal"

credentialRevocationJobName == "vault_credential_revocation"

TokenJobs == {tokenRenewalJobName, tokenRevocationJobName}

CredJobs == {credentialRenewalJobName, credentialRevocationJobName}

Jobs == TokenJobs \cup CredJobs

Procs == Jobs \X (1..MaxInv)

Tokens == 1..NumTokens

Creds == 1..NumCreds

CurrentToken == "current"

MaintainingToken == "maintaining"

ExpiredToken == "expired"

RevokedToken == "revoked"

ActiveCredential == "active"

RevokeCredential == "revoke"

ExpiredCredential == "expired"

RevokedCredential == "revoked"

TokenStatuses == {CurrentToken, MaintainingToken, ExpiredToken, RevokedToken}

CredStatuses == {ActiveCredential, RevokeCredential, ExpiredCredential, RevokedCredential}

\* token_hmac of the token a credential was issued under
credTokenHmac(c) == ((c - 1) % NumTokens) + 1

VARIABLES
  running,       \* [Jobs -> BOOLEAN]      ua.Bool of each job instance
  numTotal,      \* [Jobs -> Nat]          numTokens / numCreds
  numProcessed,  \* [Jobs -> Nat]
  pc,            \* [Procs -> position of the invocation in Run]
  loaded,        \* [Procs -> BOOLEAN]     value returned by running.Load()
  batch,         \* [Procs -> Seq(item snapshot)]  ps / creds
  idx,           \* [Procs -> Nat]         position of the range loop
  badWrite,      \* [Procs -> BOOLEAN]     history: a write of this Run reported rows != 1
  tokStatus, tokExp, tokLast,      \* credential_vault_token rows
  credStatus, credExp, credLast,   \* credential_vault_credential rows
  now,
  focus,         \* the jobs the scheduler drives
  lastItem,      \* history: the item processed by the latest step
  lastReturn,    \* history: the return made by the latest step
  nextRun,       \* the latest call of NextRunIn: its job, query result and return
  extractCall,   \* the latest call of Extract: its arguments and the pair returned
  lookupCall     \* the latest call of LookupUser: its options, the reader's answer, the return

vars == <<running, numTotal, numProcessed, pc, loaded, batch, idx,
          badWrite, tokStatus, tokExp, tokLast, credStatus, credExp,
          credLast, now, focus, lastItem, lastReturn, nextRun,
          extractCall, lookupCall>>

jobVars == <<running, numTotal, numProcessed>>

procVars == <<pc, loaded, batch, idx, badWrite>>

callVars == <<extractCall, lookupCall>>

tokVars == <<tokStatus, tokExp, tokLast>>

credVars == <<credStatus, credExp, credLast>>

JobOf(p) == p[1]

Min(a, b) == IF a < b THEN a ELSE b

NoItem == [kind |-> "none", proc |-> <<"", 0>>, item |-> 0, prev |-> "", out |-> "",
           called |-> FALSE, requested |-> 0, writes |-> <<>>, execErr |-> FALSE, rows |-> 0, err |-> FALSE]

NoReturn == [kind |-> "none", proc |-> <<"", 0>>, result |-> "", passed |-> FALSE,
             selected |-> FALSE, cancelled |-> FALSE, badWrite |-> FALSE, loaded |-> FALSE, others |-> FALSE,
             attempted |-> 0, total |-> 0]

NoQuery == [kind |-> "none", renewalIn |-> 0]

NoNextRun == [kind |-> "none", job |-> "", query |-> NoQuery, dur |-> 0, err |-> FALSE]

\* --------------------------------------------------------------- storage
\* renewal_time column: half way between the last renewal and the expiration
RenewalTime(last, exp) == last + ((exp - last) \div 2)

\* rows of the credential_vault_store_private view
privateStore == {t \in Tokens : tokStatus[t] \in {CurrentToken, MaintainingToken}}

\* token_renewal_time < wt_add_seconds_to_now(renewalWindow)
TokenRenewalWhere == {t \in privateStore : RenewalTime(tokLast[t], tokExp[t]) < now + renewalWindow}

\* the revocation predicate without its restriction to maintaining tokens
TokenRevocationWhereAnyStatus == {t \in Tokens :
                                    t \notin {credTokenHmac(c) : c \in {d \in Creds : credStatus[d] = ActiveCredential}}}

\* the revocation predicate without its test of the credentials
TokenRevocationWhereIgnoresCreds == {t \in privateStore : tokStatus[t] = MaintainingToken}

\* token_status = maintaining and token_hmac not in (credentials with status = active)
TokenRevocationWhere == {t \in privateStore :
                           /\ tokStatus[t] = MaintainingToken
                           /\ t \notin {credTokenHmac(c) : c \in {d \in Creds : credStatus[d] = ActiveCredential}}}

\* renewal_time < wt_add_seconds_to_now(renewalWindow) and status = active
CredentialRenewalWhere == {c \in Creds : /\ RenewalTime(credLast[c], credExp[c]) < now + renewalWindow
                                         /\ credStatus[c] = ActiveCredential}

\* the revocation predicate without its restriction to `revoke`
CredentialRevocationWhereAnyLive == {c \in Creds : credStatus[c] \in {RevokeCredential, ActiveCredential}}

\* status = revoke
CredentialRevocationWhere == {c \in Creds : credStatus[c] = RevokeCredential}

RECURSIVE SetToSeq(_)
SetToSeq(S) == IF S = {} THEN <<>>
               ELSE LET m == CHOOSE x \in S : \A y \in S : x <= y
                    IN <<m>> \o SetToSeq(S \ {m})

\* the fields of a selected row that the job reads later on
Snapshot(j, id) == IF j = credentialRenewalJobName
                   THEN [id |-> id, exp |-> credExp[id], last |-> credLast[id]]
                   ELSE [id |-> id, exp |-> 0, last |-> 0]

\* a selection that returns every matching row twice
SearchWhereRepeating(j, where) == LET rows == SetToSeq(where) \o SetToSeq(where)
                                  IN [k \in 1..Min(Limit, Len(rows)) |-> Snapshot(j, rows[k])]

\* reader.SearchWhere(ctx, &ps, where, args, db.WithLimit(r.limit))
SearchWhere(j, where) == LET rows == SetToSeq(where)
                         IN [k \in 1..Min(Limit, Len(rows)) |-> Snapshot(j, rows[k])]

Where(j) == CASE j = tokenRenewalJobName -> TokenRenewalWhere
              [] j = tokenRevocationJobName -> TokenRevocationWhere
              [] j = credentialRenewalJobName -> CredentialRenewalWhere
              [] j = credentialRevocationJobName -> CredentialRevocationWhere

\* outcomes of writer.Exec: an error, or the number of rows affected
ExecOutcomes == {[err |-> TRUE, rows |-> 0]} \cup {[err |-> FALSE, rows |-> n] : n \in 0..MaxRows}

ExecOne == [err |-> FALSE, rows |-> 1]

StatusWrite(st) == [col |-> "status", status |-> st, ttl |-> 0]

ExpirationWrite(ttl) == [col |-> "expiration", status |-> "", ttl |-> ttl]

\* the row count check accepting any non-zero count
RowsOkNonZero(numRows) == numRows >= 1

\* if numRows != 1 { return errors.New(...) }
RowsOk(numRows) == numRows = 1

ExecErr(ex) == ex.err \/ ~RowsOk(ex.rows)

\* the row is changed when the statement ran and matched it
Applied(ex) == ~ex.err /\ ex.rows >= 1

\* ------------------------------------------------------- item processing
PrepareFailures == {"kmsErr", "decryptErr", "clientErr"}

BackendOutcomes == {"ok", "forbidden", "badRequest", "otherErr"}

Outcomes(j) == PrepareFailures \cup BackendOutcomes
               \cup (IF j \in TokenJobs THEN {"noToken"} ELSE {})
               \cup (IF j = tokenRenewalJobName THEN {"ttlErr"} ELSE {})

\* the backend is called once the wrapper, the decryption, the token of the
\* store and the client are there: every outcome after s.client() / c.client()
BackendCalled(out) == out \in BackendOutcomes \cup {"ttlErr"}

NoWrite(e) == [writes |-> <<>>, err |-> e]

OneWrite(w, ex) == [writes |-> <<w>>, err |-> ExecErr(ex)]

\* renewToken without the special case for 403
renewTokenNoForbidden(s, out, ttl, ex) ==
  CASE out \in PrepareFailures -> NoWrite(TRUE)
    [] out = "noToken" -> NoWrite(FALSE)
    [] out \in {"forbidden", "badRequest", "otherErr", "ttlErr"} -> NoWrite(TRUE)
    [] out = "ok" -> OneWrite(ExpirationWrite(ttl), ex)

\* renewToken writing the expiration without the TTL of the renewed token
renewTokenDropsTTL(s, out, ttl, ex) ==
  CASE out \in PrepareFailures -> NoWrite(TRUE)
    [] out = "noToken" -> NoWrite(FALSE)
    [] out = "forbidden" -> OneWrite(StatusWrite(ExpiredToken), ex)
    [] out \in {"badRequest", "otherErr", "ttlErr"} -> NoWrite(TRUE)
    [] out = "ok" -> OneWrite(ExpirationWrite(0), ex)

\* renewToken reporting a store without token as an error
renewTokenNoTokenFails(s, out, ttl, ex) ==
  CASE out \in PrepareFailures -> NoWrite(TRUE)
    [] out = "noToken" -> NoWrite(TRUE)
    [] out = "forbidden" -> OneWrite(StatusWrite(ExpiredToken), ex)
    [] out \in {"badRequest", "otherErr", "ttlErr"} -> NoWrite(TRUE)
    [] out = "ok" -> OneWrite(ExpirationWrite(ttl), ex)

\* (r *TokenRenewalJob) renewToken
renewToken(s, out, ttl, ex) ==
  CASE out \in PrepareFailures -> NoWrite(TRUE)
    [] out = "noToken" -> NoWrite(FALSE)
    [] out = "forbidden" -> OneWrite(StatusWrite(ExpiredToken), ex)
    [] out \in {"badRequest", "otherErr", "ttlErr"} -> NoWrite(TRUE)
    [] out = "ok" -> OneWrite(ExpirationWrite(ttl), ex)

\* revokeToken without the special case for 403
revokeTokenNoForbidden(s, out, ttl, ex) ==
  CASE out \in PrepareFailures -> NoWrite(TRUE)
    [] out = "noToken" -> NoWrite(FALSE)
    [] out \in {"forbidden", "badRequest", "otherErr"} -> NoWrite(TRUE)
    [] out = "ok" -> OneWrite(StatusWrite(RevokedToken), ex)

\* (r *TokenRevocationJob) revokeToken
revokeToken(s, out, ttl, ex) ==
  CASE out \in PrepareFailures -> NoWrite(TRUE)
    [] out = "noToken" -> NoWrite(FALSE)
    [] out \in {"badRequest", "otherErr"} -> NoWrite(TRUE)
    [] out \in {"ok", "forbidden"} -> OneWrite(StatusWrite(RevokedToken), ex)

\* the time left until the expiration taken for the lease duration
leaseDurationFromNow(c) == c.exp - now

\* leaseDuration := c.ExpirationTime.AsTime().Sub(c.LastRenewalTime.AsTime())
leaseDuration(c) == c.exp - c.last

\* renewCred writing a new expiration on 400 as it does on success
renewCredBadRequestRenews(c, out, ttl, ex) ==
  CASE out \in PrepareFailures -> NoWrite(TRUE)
    [] out \in {"forbidden", "otherErr"} -> NoWrite(TRUE)
    [] out \in {"ok", "badRequest"} -> OneWrite(ExpirationWrite(ttl), ex)

\* renewCred going on to the expiration write after the status write of a 400
renewCredExpiresThenRenews(c, out, ttl, ex) ==
  CASE out \in PrepareFailures -> NoWrite(TRUE)
    [] out = "badRequest" -> [writes |-> <<StatusWrite(ExpiredCredential), ExpirationWrite(ttl)>>,
                              err |-> ExecErr(ex)]
    [] out \in {"forbidden", "otherErr"} -> NoWrite(TRUE)
    [] out = "ok" -> OneWrite(ExpirationWrite(ttl), ex)

\* (r *CredentialRenewalJob) renewCred
renewCred(c, out, ttl, ex) ==
  CASE out \in PrepareFailures -> NoWrite(TRUE)
    [] out = "badRequest" -> OneWrite(StatusWrite(ExpiredCredential), ex)
    [] out \in {"forbidden", "otherErr"} -> NoWrite(TRUE)
    [] out = "ok" -> OneWrite(ExpirationWrite(ttl), ex)

\* revokeCred going on to the status write after a failed revoke-lease
revokeCredWritesOnError(c, out, ttl, ex) ==
  CASE out \in PrepareFailures -> NoWrite(TRUE)
    [] out \in {"forbidden", "badRequest"} -> NoWrite(TRUE)
    [] out \in {"ok", "otherErr"} -> OneWrite(StatusWrite(RevokedCredential), ex)

\* revokeCred taking a 403 from revoke-lease for a finished revocation
revokeCredForbiddenRevokes(c, out, ttl, ex) ==
  CASE out \in PrepareFailures -> NoWrite(TRUE)
    [] out \in {"badRequest", "otherErr"} -> NoWrite(TRUE)
    [] out \in {"ok", "forbidden"} -> OneWrite(StatusWrite(RevokedCredential), ex)

\* (r *CredentialRevocationJob) revokeCred
revokeCred(c, out, ttl, ex) ==
  CASE out \in PrepareFailures -> NoWrite(TRUE)
    [] out \in {"forbidden", "badRequest", "otherErr"} -> NoWrite(TRUE)
    [] out = "ok" -> OneWrite(StatusWrite(RevokedCredential), ex)

ProcessItem(j, s, out, ttl, ex) ==
  CASE j = tokenRenewalJobName -> renewToken(s, out, ttl, ex)
    [] j = tokenRevocationJobName -> revokeToken(s, out, ttl, ex)
    [] j = credentialRenewalJobName -> renewCred(s, out, ttl, ex)
    [] j = credentialRevocationJobName -> revokeCred(s, out, ttl, ex)

\* the statement built by updateStatusQuery / updateExpirationQuery, run by
\* writer.Exec: it addresses the row by its key (token_hmac / public_id)
ExecStatus(table, id, res, ex) ==
  IF res.writes # <<>> /\ res.writes[1].col = "status" /\ Applied(ex)
  THEN [table EXCEPT ![id] = res.writes[1].status] ELSE table

ExecExpiration(table, id, res, ex) ==
  IF res.writes # <<>> /\ res.writes[1].col = "expiration" /\ Applied(ex)
  THEN [table EXCEPT ![id] = now + res.writes[1].ttl] ELSE table

ExecLastRenewal(table, id, res, ex) ==
  IF res.writes # <<>> /\ res.writes[1].col = "expiration" /\ Applied(ex)
  THEN [table EXCEPT ![id] = now] ELSE table

\* ------------------------------------------------------------------- Run
\* r.running.CAS(r.running.Load(), true) succeeds when the flag still holds
\* the value that Load returned
CASSucceeds(j, old) == running[j] = old

\* the flag cleared only on the path that returns nil
DeferredStoreOnNil(j, result) == IF result = "nil" THEN [running EXCEPT ![j] = FALSE] ELSE running

\* defer r.running.Store(false)
DeferredStore(j, result) == [running EXCEPT ![j] = FALSE]

\* the loop returning the item's error instead of logging it
ItemErrorAbortsAlways(err) == err

\* if err := r.renewToken(ctx, s); err != nil { r.logger.Error(...) }
ItemErrorAborts(err) == FALSE

InFlight == {p \in Procs : pc[p] # "idle"}

Return(p, result, passed, bad, numAttempted) ==
  /\ pc' = [pc EXCEPT ![p] = "idle"]
  /\ loaded' = [loaded EXCEPT ![p] = FALSE]
  /\ batch' = [batch EXCEPT ![p] = <<>>]
  /\ idx' = [idx EXCEPT ![p] = 0]
  /\ badWrite' = [badWrite EXCEPT ![p] = FALSE]
  /\ running' = IF passed THEN DeferredStore(JobOf(p), result) ELSE running
  /\ lastReturn' = [kind |-> "return", proc |-> p, result |-> result, passed |-> passed,
                    selected |-> pc[p] = "loop",
                    cancelled |-> result = "canceled", badWrite |-> bad, loaded |-> loaded[p],
                    others |-> \E q \in InFlight : q # p /\ JobOf(q) = JobOf(p),
                    attempted |-> IF pc[p] = "loop" THEN numAttempted ELSE 0,
                    total |-> Len(batch[p])]

\* a failure before the loop that has already cleared the counters
FailedBeforeLoopAfterReset(p, result) ==
  /\ Return(p, result, TRUE, FALSE, 0)
  /\ numProcessed' = [numProcessed EXCEPT ![JobOf(p)] = 0]
  /\ numTotal' = [numTotal EXCEPT ![JobOf(p)] = 0]

\* return errors.Wrap(err, op) before r.numProcessed, r.numTokens = 0, len(ps)
FailedBeforeLoop(p, result) ==
  /\ Return(p, result, TRUE, FALSE, 0)
  /\ UNCHANGED <<numTotal, numProcessed>>

\* the assignment of the counters leaving numProcessed as it was
ResetProcessedKeeps(j) == numProcessed

\* r.numProcessed, r.numTokens = 0, len(ps): the processed counter
ResetProcessed(j) == [numProcessed EXCEPT ![j] = 0]

\* a cancellation that counts the item in hand as processed
CancelledInLoopCountsItem(p) ==
  /\ Return(p, "canceled", TRUE, badWrite[p], idx[p] - 1)
  /\ lastItem' = NoItem
  /\ numProcessed' = [numProcessed EXCEPT ![JobOf(p)] = @ + 1]
  /\ UNCHANGED <<numTotal, tokVars, credVars>>

\* if err := ctx.Err(); err != nil { return errors.Wrap(err, op) } in the loop
CancelledInLoop(p) ==
  /\ Return(p, "canceled", TRUE, badWrite[p], idx[p] - 1)
  /\ lastItem' = NoItem
  /\ UNCHANGED <<numTotal, numProcessed, tokVars, credVars>>

\* the processed counter advanced only for an item that raised no error
CountProcessedOnSuccess(j, err) ==
  IF err THEN numProcessed ELSE [numProcessed EXCEPT ![j] = @ + 1]

\* r.numProcessed++ at the end of the loop body, after the error was logged
CountProcessed(j, err) == [numProcessed EXCEPT ![j] = @ + 1]

\* the loop walking the batch from its end
NextItemFromEnd(p) == batch[p][Len(batch[p]) - idx[p] + 1]

\* for _, s := range ps: the element at the position of the loop
NextItem(p) == batch[p][idx[p]]

InitJobs ==
  /\ running = [j \in Jobs |-> FALSE]
  /\ numTotal = [j \in Jobs |-> 0]
  /\ numProcessed = [j \in Jobs |-> 0]
  /\ pc = [p \in Procs |-> "idle"]
  /\ loaded = [p \in Procs |-> FALSE]
  /\ batch = [p \in Procs |-> <<>>]
  /\ idx = [p \in Procs |-> 0]
  /\ badWrite = [p \in Procs |-> FALSE]
  /\ tokExp = [t \in Tokens |-> 10]
  /\ tokLast = [t \in Tokens |-> 0]
  /\ credExp = [c \in Creds |-> 10]
  /\ credLast = [c \in Creds |-> 0]
  /\ now = 0
  /\ lastItem = NoItem
  /\ lastReturn = NoReturn
  /\ nextRun = NoNextRun

\* no call of Extract or of LookupUser has been made
NoExtract == [kind |-> "none"]

NoLookup == [kind |-> "none"]

NoCalls ==
  /\ extractCall = NoExtract
  /\ lookupCall = NoLookup

\* every token is in use and every credential is leased; the scheduler
\* drives one job kind
Init ==
  /\ InitJobs
  /\ NoCalls
  /\ focus \in {{j} : j \in Jobs}
  /\ tokStatus \in {[t \in Tokens |-> IF t = 1 THEN st ELSE MaintainingToken] :
                      st \in {CurrentToken, MaintainingToken}}
  /\ focus \subseteq CredJobs => tokStatus[1] = CurrentToken
  /\ credStatus = [c \in Creds |-> ActiveCredential]

\* one token and the credential issued under it are in use, the others have
\* reached the end of their life
InitOneItem ==
  /\ InitJobs
  /\ NoCalls
  /\ tokStatus \in {[t \in Tokens |-> IF t = 1 THEN st ELSE ExpiredToken] :
                      st \in {CurrentToken, MaintainingToken}}
  /\ credStatus = [c \in Creds |-> IF c = 1 THEN ActiveCredential ELSE RevokedCredential]

\* Run is invoked: the first half of the guard, r.running.Load()
Start(p, maxInFlight, maxPerJob) ==
  /\ pc[p] = "idle"
  /\ JobOf(p) \in focus
  /\ Cardinality(InFlight) < maxInFlight
  /\ Cardinality({q \in InFlight : JobOf(q) = JobOf(p)}) < maxPerJob
  /\ \A n \in 1..(p[2] - 1) : pc[<<p[1], n>>] # "idle"
  /\ pc' = [pc EXCEPT ![p] = "cas"]
  /\ loaded' = [loaded EXCEPT ![p] = running[JobOf(p)]]
  /\ lastItem' = NoItem
  /\ lastReturn' = NoReturn
  /\ UNCHANGED <<jobVars, batch, idx, badWrite, tokVars, credVars, now, focus, nextRun, callVars>>

\* a rejection placed after the deferred Store(false)
RejectedAfterDefer(p) == Return(p, "JobAlreadyRunning", TRUE, FALSE, 0)

\* return errors.New(errors.JobAlreadyRunning, op, "job already running"),
\* before the defer is reached
Rejected(p) == Return(p, "JobAlreadyRunning", FALSE, FALSE, 0)

\* the second half of the guard: CAS(loaded, true), else JobAlreadyRunning
Guard(p) ==
  /\ pc[p] = "cas"
  /\ lastItem' = NoItem
  /\ IF CASSucceeds(JobOf(p), loaded[p])
     THEN /\ running' = [running EXCEPT ![JobOf(p)] = TRUE]
          /\ pc' = [pc EXCEPT ![p] = "select"]
          /\ loaded' = [loaded EXCEPT ![p] = FALSE]
          /\ lastReturn' = NoReturn
          /\ UNCHANGED <<batch, idx, badWrite>>
     ELSE Rejected(p)
  /\ UNCHANGED <<numTotal, numProcessed, tokVars, credVars, now, focus, nextRun, callVars>>

\* ctx.Err() check (the context is canceled or not when it is read),
\* SearchWhere and the reset of the counters
Select(p) ==
  /\ pc[p] = "select"
  /\ lastItem' = NoItem
  /\ UNCHANGED <<tokVars, credVars, now, focus, nextRun, callVars>>
  /\ \E cancelled \in BOOLEAN, queryOk \in BOOLEAN :
       IF cancelled
       THEN /\ queryOk
            /\ FailedBeforeLoop(p, "canceled")
       ELSE IF ~queryOk
       THEN FailedBeforeLoop(p, "searchFailed")
       ELSE LET ps == SearchWhere(JobOf(p), Where(JobOf(p)))
            IN /\ batch' = [batch EXCEPT ![p] = ps]
               /\ idx' = [idx EXCEPT ![p] = 1]
               /\ pc' = [pc EXCEPT ![p] = "loop"]
               /\ numProcessed' = ResetProcessed(JobOf(p))
               /\ numTotal' = [numTotal EXCEPT ![JobOf(p)] = Len(ps)]
               /\ lastReturn' = NoReturn
               /\ UNCHANGED <<running, loaded, badWrite>>

\* one iteration of the range loop: ctx.Err() check, the item, numProcessed++
Item(p, outcomes, execs) ==
  /\ pc[p] = "loop"
  /\ idx[p] <= Len(batch[p])
  /\ UNCHANGED <<now, focus, nextRun, callVars>>
  /\ LET j == JobOf(p)
         s == NextItem(p)
     IN \/ CancelledInLoop(p)
        \/ \E out \in outcomes \cap Outcomes(j), ttl \in TTLs, ex \in execs :
               LET res == ProcessItem(j, s, out, ttl, ex)
                   wrote == res.writes # <<>>
                   bad == badWrite[p] \/ (wrote /\ ~ex.err /\ ex.rows # 1)
               IN /\ wrote \/ (ex = ExecOne)
                  /\ IF j \in TokenJobs
                     THEN /\ tokStatus' = ExecStatus(tokStatus, s.id, res, ex)
                          /\ tokExp' = ExecExpiration(tokExp, s.id, res, ex)
                          /\ tokLast' = ExecLastRenewal(tokLast, s.id, res, ex)
                          /\ UNCHANGED credVars
                     ELSE /\ credStatus' = ExecStatus(credStatus, s.id, res, ex)
                          /\ credExp' = ExecExpiration(credExp, s.id, res, ex)
                          /\ credLast' = ExecLastRenewal(credLast, s.id, res, ex)
                          /\ UNCHANGED tokVars
                  /\ lastItem' = [kind |-> "item", proc |-> p, item |-> s.id,
                                  prev |-> IF j \in TokenJobs THEN tokStatus[s.id] ELSE credStatus[s.id],
                                  out |-> out, called |-> BackendCalled(out),
                                  requested |-> IF j = credentialRenewalJobName /\ out \notin PrepareFailures
                                                THEN leaseDuration(s) ELSE 0,
                                  writes |-> res.writes,
                                  execErr |-> wrote /\ ex.err,
                                  rows |-> IF wrote /\ ~ex.err THEN ex.rows ELSE 0,
                                  err |-> res.err]
                  /\ numProcessed' = CountProcessed(j, res.err)
                  /\ UNCHANGED numTotal
                  /\ IF ItemErrorAborts(res.err)
                     THEN Return(p, "itemFailed", TRUE, bad, idx[p])
                     ELSE /\ idx' = [idx EXCEPT ![p] = @ + 1]
                          /\ badWrite' = [badWrite EXCEPT ![p] = bad]
                          /\ lastReturn' = NoReturn
                          /\ UNCHANGED <<running, pc, loaded, batch>>

\* the range loop is exhausted: return nil
Finish(p) ==
  /\ pc[p] = "loop"
  /\ idx[p] > Len(batch[p])
  /\ Return(p, "nil", TRUE, badWrite[p], idx[p] - 1)
  /\ lastItem' = NoItem
  /\ UNCHANGED <<numTotal, numProcessed, tokVars, credVars, now, focus, nextRun, callVars>>

\* a collaborator outside the jobs marks an active credential for revocation
\* (the token renewal job never reads the credentials; a credential marked
\* while the credential renewal job holds it is the case of SpecCross)
SetRevoke(c) ==
  /\ focus \notin {{tokenRenewalJobName}, {credentialRenewalJobName}}
  /\ credStatus[c] = ActiveCredential
  /\ credStatus' = [credStatus EXCEPT ![c] = RevokeCredential]
  /\ lastItem' = NoItem
  /\ lastReturn' = NoReturn
  /\ UNCHANGED <<jobVars, procVars, tokVars, credExp, credLast, now, focus, nextRun, callVars>>

Tick ==
  /\ now < MaxNow
  /\ now' = now + 1
  /\ lastItem' = NoItem
  /\ lastReturn' = NoReturn
  /\ UNCHANGED <<jobVars, procVars, tokVars, credVars, focus, nextRun, callVars>>

AllOutcomes == PrepareFailures \cup BackendOutcomes \cup {"noToken", "ttlErr"}

\* the scheduler starts a Run only after the previous one has returned
Next ==
  \/ \E p \in Procs : Start(p, 1, 1)
  \/ \E p \in Procs : Guard(p)
  \/ \E p \in Procs : Select(p)
  \/ \E p \in Procs : Item(p, AllOutcomes, ExecOutcomes)
  \/ \E p \in Procs : Finish(p)
  \/ \E c \in Creds : SetRevoke(c)
  \/ Tick

Spec == Init /\ [][Next]_vars

\* an invocation of Run goes on once the collaborator call it waits for has
\* returned: the guard, the selection, the next item, the final return
RunStep(p) ==
  \/ Guard(p)
  \/ Select(p)
  \/ Item(p, AllOutcomes, ExecOutcomes)
  \/ Finish(p)

\* the runs of Spec at one instant (the clock plays no part in whether a
\* Run returns), with every collaborator call returning
NextLive ==
  \/ \E p \in Procs : Start(p, 1, 1)
  \/ \E p \in Procs : RunStep(p)
  \/ \E c \in Creds : SetRevoke(c)

SpecLive == Init /\ [][NextLive]_vars /\ \A p \in Procs : WF_vars(RunStep(p))

\* invocations of one job instance overlap; the backend answers and every
\* write affects its row
InitSame == InitOneItem /\ focus \in {{j} : j \in Jobs}

NextSame ==
  \/ \E p \in Procs : Start(p, MaxInv, MaxInv)
  \/ \E p \in Procs : Guard(p)
  \/ \E p \in Procs : Select(p)
  \/ \E p \in Procs : Item(p, BackendOutcomes, {ExecOne})
  \/ \E p \in Procs : Finish(p)
  \/ \E c \in Creds : SetRevoke(c)

SpecSame == InitSame /\ [][NextSame]_vars

\* runs of different job kinds of one family overlap, one invocation each
InitCross == InitOneItem /\ focus \in {TokenJobs, CredJobs}

NextCross ==
  \/ \E p \in Procs : Start(p, MaxConcurrent, 1)
  \/ \E p \in Procs : Guard(p)
  \/ \E p \in Procs : Select(p)
  \/ \E p \in Procs : Item(p, BackendOutcomes, {ExecOne})
  \/ \E p \in Procs : Finish(p)
  \/ \E c \in Creds : SetRevoke(c)

SpecCross == InitCross /\ [][NextCross]_vars

\* ------------------------------------------------------------- NextRunIn
\* durations are counted in milliseconds
Second == 1000

Minute == 60 * Second

RenewalJobs == {tokenRenewalJobName, credentialRenewalJobName}

\* outcomes of r.Query and r.ScanRows: the query fails, yields no row, the
\* scan of the row fails, or the row holds RenewalIn seconds
NextRenewalResults ==
  {[kind |-> k, renewalIn |-> 0] : k \in {"queryErr", "noRow", "scanErr"}}
    \cup {[kind |-> "row", renewalIn |-> n] : n \in (0 - MaxRenewalIn)..MaxRenewalIn}

\* nextRenewal without the test for a renewal time in the past
nextRenewalNoClamp(j, q) ==
  IF j \notin RenewalJobs THEN [dur |-> 0, err |-> TRUE]
  ELSE CASE q.kind \in {"queryErr", "scanErr"} -> [dur |-> 0, err |-> TRUE]
         [] q.kind = "row" -> [dur |-> q.renewalIn * Second, err |-> FALSE]
         [] q.kind = "noRow" -> [dur |-> defaultNextRunIn * Minute, err |-> FALSE]

\* nextRenewal(j scheduler.Job) (time.Duration, error); n.RenewalIn *
\* time.Second stays inside int64 for a time until renewal below 292 years
nextRenewal(j, q) ==
  IF j \notin RenewalJobs THEN [dur |-> 0, err |-> TRUE]
  ELSE CASE q.kind \in {"queryErr", "scanErr"} -> [dur |-> 0, err |-> TRUE]
         [] q.kind = "row" -> IF q.renewalIn < 0 THEN [dur |-> 0, err |-> FALSE]
                              ELSE [dur |-> q.renewalIn * Second, err |-> FALSE]
         [] q.kind = "noRow" -> [dur |-> defaultNextRunIn * Minute, err |-> FALSE]

\* NextRunIn handing on what nextRenewal returned together with the error
NextRunInPassThrough(j, q) ==
  IF j \in RenewalJobs
  THEN nextRenewal(j, q)
  ELSE [dur |-> defaultNextRunIn * Minute, err |-> FALSE]

\* NextRunIn() (time.Duration, error) of the four jobs
NextRunIn(j, q) ==
  IF j \in RenewalJobs
  THEN LET next == nextRenewal(j, q)
       IN IF next.err THEN [dur |-> defaultNextRunIn * Minute, err |-> TRUE]
          ELSE next
  ELSE [dur |-> defaultNextRunIn * Minute, err |-> FALSE]

\* the scheduler asks a job when to run it next
CallNextRunIn(j) ==
  /\ \E q \in (IF j \in RenewalJobs THEN NextRenewalResults ELSE {NoQuery}) :
       LET res == NextRunIn(j, q)
       IN nextRun' = [kind |-> "call", job |-> j, query |-> q, dur |-> res.dur, err |-> res.err]
  /\ UNCHANGED <<jobVars, procVars, tokVars, credVars, now, focus, lastItem, lastReturn,
                 callVars>>

InitNextRun == InitOneItem /\ focus = Jobs

NextNextRun == \E j \in Jobs : CallNextRunIn(j)

SpecNextRun == InitNextRun /\ [][NextNextRun]_vars

\* ---------------------------------------------------------------------
\* userpassword.Extract
\* ---------------------------------------------------------------------

\* strings are numbered: 0 is the empty string, 1..NumStrings are non-empty
Strings == 0..NumStrings

\* a value stored in a map[string]interface{}: missing, a string, or a
\* value of another type
Absent == [t |-> "absent", s |-> 0]

Scalars == {Absent, [t |-> "int", s |-> 0]} \cup {[t |-> "str", s |-> n] : n \in Strings}

\* the keys of the embedded data map
InnerKeys == {"username", "password"}

InnerMaps == [InnerKeys -> Scalars]

EmptyMap == [k \in InnerKeys |-> Absent]

Leaf(v) == [t |-> v.t, s |-> v.s, m |-> EmptyMap]

MapVal(m) == [t |-> "map", s |-> 0, m |-> m]

\* a map[string]interface{}(nil) stored under a key
NilMap == [t |-> "nilmap", s |-> 0, m |-> EmptyMap]

TopKeys == {"username", "password", "data", "metadata", "extra"}

\* the secret data handed to Extract
Datas ==
  {[username |-> Leaf(u), password |-> Leaf(p), data |-> dv, metadata |-> mv,
    extra |-> Leaf(e)] :
      u \in Scalars, p \in Scalars,
      dv \in {Leaf(Absent), Leaf([t |-> "str", s |-> NumStrings]), NilMap}
               \cup {MapVal(m) : m \in InnerMaps},
      mv \in {Leaf(Absent), Leaf([t |-> "str", s |-> NumStrings]), NilMap, MapVal(EmptyMap)},
      e \in {Absent, [t |-> "int", s |-> 0]}}

AttrNames == {"username", "password", "data"}

NoUserPass == [username |-> 0, password |-> 0]

\* v, ok := m[k]; s, ok := v.(string)
AsString(v) == IF v.t = "str" THEN v.s ELSE 0

InnerGet(m, k) == IF k \in DOMAIN m THEN m[k] ELSE Absent

defaultUserPass(sd, usernameAttr, passwordAttr) ==
  [username |-> AsString(sd[usernameAttr]), password |-> AsString(sd[passwordAttr])]

kv2UserPass(d, usernameAttr, passwordAttr) ==
  IF \E k \in TopKeys \ {"data", "metadata"} : d[k].t # "absent"
  THEN NoUserPass
  ELSE IF d["data"].t \notin {"absent", "map", "nilmap"}
          \/ d["metadata"].t \notin {"absent", "map", "nilmap"}
  THEN NoUserPass
  ELSE IF d["data"].t # "map" \/ d["metadata"].t # "map"
  THEN NoUserPass
  ELSE [username |-> AsString(InnerGet(d["data"].m, usernameAttr)),
        password |-> AsString(InnerGet(d["data"].m, passwordAttr))]

\* a variant that returns what the first function found
ExtractPartial(d, usernameAttr, passwordAttr) ==
  LET first == defaultUserPass(d, usernameAttr, passwordAttr)
      second == kv2UserPass(d, usernameAttr, passwordAttr)
  IN IF first.username # 0 \/ first.password # 0 THEN first
     ELSE IF second.username # 0 /\ second.password # 0 THEN second
     ELSE NoUserPass

Extract(d, usernameAttr, passwordAttr) ==
  LET first == defaultUserPass(d, usernameAttr, passwordAttr)
      second == kv2UserPass(d, usernameAttr, passwordAttr)
  IN IF first.username # 0 /\ first.password # 0 THEN first
     ELSE IF second.username # 0 /\ second.password # 0 THEN second
     ELSE NoUserPass

\* Extract is called on the secret data
CallExtract ==
  /\ extractCall.kind = "input"
  /\ LET res == Extract(extractCall.d, extractCall.usernameAttr, extractCall.passwordAttr)
     IN extractCall' = [extractCall EXCEPT !.kind = "done",
                                           !.username = res.username,
                                           !.password = res.password]
  /\ UNCHANGED <<jobVars, procVars, tokVars, credVars, now, focus, lastItem, lastReturn,
                 nextRun, lookupCall>>

InitExtract ==
  /\ InitJobs
  /\ tokStatus = [t \in Tokens |-> ExpiredToken]
  /\ credStatus = [c \in Creds |-> RevokedCredential]
  /\ focus = {}
  /\ lookupCall = NoLookup
  /\ extractCall \in {[kind |-> "input", d |-> d, usernameAttr |-> ua, passwordAttr |-> pa,
                       username |-> 0, password |-> 0] :
                        d \in Datas, ua \in AttrNames, pa \in AttrNames}

NextExtract == CallExtract

SpecExtract == InitExtract /\ [][NextExtract]_vars

\* ---------------------------------------------------------------------
\* iam.Repository.LookupUser
\* ---------------------------------------------------------------------

\* public ids and names are numbered from 1; 0 is the empty string
PublicIds == 1..NumUsers

Names == 1..NumUsers

\* the user table: the name of the row of each public id, 0 where there is
\* no row
UserTables == [PublicIds -> {0} \cup Names]

NilUser == [publicId |-> 0, name |-> 0]

ErrRecordNotFound == "db.ErrRecordNotFound"

\* r.reader.LookupByPublicId(ctx, &user): the row of user.PublicId is read
\* into user; a missing row is reported as db.ErrRecordNotFound
LookupByPublicId(rows, dbErr, id) ==
  IF dbErr THEN [user |-> NilUser, err |-> "dbErr"]
  ELSE IF id \in PublicIds /\ rows[id] # 0
  THEN [user |-> [publicId |-> id, name |-> rows[id]], err |-> "nil"]
  ELSE [user |-> NilUser, err |-> ErrRecordNotFound]

\* r.reader.LookupByName(ctx, &user)
LookupByName(rows, dbErr, name) ==
  IF dbErr THEN [user |-> NilUser, err |-> "dbErr"]
  ELSE IF \E id \in PublicIds : rows[id] = name
  THEN LET id == CHOOSE i \in PublicIds :
                   rows[i] = name /\ \A k \in PublicIds : rows[k] = name => i <= k
       IN [user |-> [publicId |-> id, name |-> name], err |-> "nil"]
  ELSE [user |-> NilUser, err |-> ErrRecordNotFound]

LookupUser(rows, dbErr, withPublicId, withName) ==
  IF withPublicId # 0
  THEN LET res == LookupByPublicId(rows, dbErr, withPublicId)
       IN IF res.err # "nil" THEN [user |-> NilUser, err |-> res.err]
          ELSE [user |-> res.user, err |-> "nil"]
  ELSE IF withName # 0
  THEN LET res == LookupByName(rows, dbErr, withName)
       IN IF res.err # "nil" THEN [user |-> NilUser, err |-> res.err]
          ELSE [user |-> res.user, err |-> "nil"]
  ELSE [user |-> NilUser, err |-> "you must loop up users by id or friendly name"]

\* LookupUser is called with its options
CallLookupUser ==
  /\ lookupCall.kind = "input"
  /\ LET res == LookupUser(lookupCall.rows, lookupCall.dbErr,
                           lookupCall.withPublicId, lookupCall.withName)
     IN lookupCall' = [lookupCall EXCEPT !.kind = "done",
                                         !.user = res.user,
                                         !.err = res.err]
  /\ UNCHANGED <<jobVars, procVars, tokVars, credVars, now, focus, lastItem, lastReturn,
                 nextRun, extractCall>>

InitLookup ==
  /\ InitJobs
  /\ tokStatus = [t \in Tokens |-> ExpiredToken]
  /\ credStatus = [c \in Creds |-> RevokedCredential]
  /\ focus = {}
  /\ extractCall = NoExtract
  /\ lookupCall \in {[kind |-> "input", rows |-> rows, dbErr |-> dbErr,
                      withPublicId |-> id, withName |-> name,
                      user |-> NilUser, err |-> "nil"] :
                       rows \in UserTables, dbErr \in BOOLEAN,
                       id \in {0} \cup PublicIds, name \in {0} \cup Names}

NextLookup == CallLookupUser

SpecLookup == InitLookup /\ [][NextLookup]_vars

TypeOK ==
  /\ running \in [Jobs -> BOOLEAN]
  /\ pc \in [Procs -> {"idle", "cas", "select", "loop"}]
  /\ tokStatus \in [Tokens -> TokenStatuses]
  /\ credStatus \in [Creds -> CredStatuses]

\* ---------------------------------------------------------------- claims
PastGuard(j) == {p \in Procs : JobOf(p) = j /\ pc[p] \in {"select", "loop"}}

BatchIds(p) == {batch[p][k].id : k \in 1..Len(batch[p])}

\* C1: at most one invocation per job instance is past the guard (selecting
\* or processing items) at any time; an overlapping Run is rejected with
\* JobAlreadyRunning.
C1_AtMostOnePastGuard == \A j \in Jobs : Cardinality(PastGuard(j)) <= 1

\* C2: when a Run that passed the guard returns, by any path, the running
\* flag is false; the flag is false whenever no invocation is past the guard;
\* and a Run is rejected as already running only if it overlapped another Run
\* of the instance (the flag was held when it loaded it, or another invocation
\* is in flight when it is rejected).
C2_FlagClearedOnReturn ==
  /\ (lastReturn.kind = "return" /\ lastReturn.passed) => ~running[JobOf(lastReturn.proc)]
  /\ \A j \in Jobs : PastGuard(j) = {} => ~running[j]
  /\ (lastReturn.kind = "return" /\ lastReturn.result = "JobAlreadyRunning")
       => (lastReturn.loaded \/ lastReturn.others)

C2_Witness ==
  /\ lastReturn.kind = "return"
  /\ lastReturn.passed
  /\ lastReturn.result \in {"canceled", "searchFailed"}
  /\ InFlight = {}

\* C3: a Run that passed the guard, whose selection succeeded and whose
\* context is not canceled returns nil after attempting every selected item,
\* whatever the outcomes of the items were.
C3_AllItemsAttempted ==
  (lastReturn.kind = "return" /\ lastReturn.selected /\ ~lastReturn.cancelled)
    => (lastReturn.result = "nil" /\ lastReturn.attempted = lastReturn.total)

C3_Witness ==
  /\ lastReturn.kind = "return"
  /\ lastReturn.result = "nil"
  /\ lastReturn.badWrite
  /\ lastReturn.total = 2
  /\ lastReturn.attempted = 2

C5_ForbiddenRenewExpires ==
  (lastItem.kind = "item" /\ JobOf(lastItem.proc) = tokenRenewalJobName /\ lastItem.out = "forbidden")
    => /\ lastItem.writes = <<StatusWrite(ExpiredToken)>>
       /\ (~lastItem.execErr /\ lastItem.rows = 1)
            => (~lastItem.err /\ tokStatus[lastItem.item] = ExpiredToken)

C5_Witness ==
  /\ lastItem.kind = "item"
  /\ JobOf(lastItem.proc) = tokenRenewalJobName
  /\ lastItem.out = "forbidden"
  /\ lastItem.rows = 1
  /\ lastItem.prev = CurrentToken
  /\ tokStatus[lastItem.item] = ExpiredToken

\* C6: in the token revocation job a 403 from revoke-self is handled as a
\* successful revocation: status revoked is written and, when the write
\* affects one row, the item produces no processing error.
C6_ForbiddenRevokeRevokes ==
  (lastItem.kind = "item" /\ JobOf(lastItem.proc) = tokenRevocationJobName /\ lastItem.out = "forbidden")
    => /\ lastItem.writes = <<StatusWrite(RevokedToken)>>
       /\ (~lastItem.execErr /\ lastItem.rows = 1)
            => (~lastItem.err /\ tokStatus[lastItem.item] = RevokedToken)

C6_Witness ==
  /\ lastItem.kind = "item"
  /\ JobOf(lastItem.proc) = tokenRevocationJobName
  /\ lastItem.out = "forbidden"
  /\ lastItem.rows = 1
  /\ tokStatus[lastItem.item] = RevokedToken

\* C7: in the credential renewal job a 400 from renew-lease leads to the
\* write of status expired for the credential and to no expiration write.
C7_BadRequestExpires ==
  (lastItem.kind = "item" /\ JobOf(lastItem.proc) = credentialRenewalJobName /\ lastItem.out = "badRequest")
    => /\ lastItem.writes = <<StatusWrite(ExpiredCredential)>>
       /\ (~lastItem.execErr /\ lastItem.rows >= 1) => credStatus[lastItem.item] = ExpiredCredential

C7_Witness ==
  /\ lastItem.kind = "item"
  /\ JobOf(lastItem.proc) = credentialRenewalJobName
  /\ lastItem.out = "badRequest"
  /\ lastItem.rows = 1
  /\ credStatus[lastItem.item] = ExpiredCredential

\* C8: a token's status changes only by current -> expired, maintaining ->
\* expired or maintaining -> revoked; an expired or revoked token is never
\* written to another status.
C8_TokenTransitions ==
  [][\A t \in Tokens :
       tokStatus'[t] # tokStatus[t]
         => <<tokStatus[t], tokStatus'[t]>> \in {<<CurrentToken, ExpiredToken>>,
                                                 <<MaintainingToken, ExpiredToken>>,
                                                 <<MaintainingToken, RevokedToken>>}]_vars

\* C9: the only status changes the jobs make to a credential are active ->
\* expired, active -> revoked and revoke -> revoked; a revoked or expired
\* credential is never rewritten and a credential in revoke is never expired.
C9_CredentialTransitions ==
  [][\A c \in Creds :
       (lastItem'.kind = "item" /\ credStatus'[c] # credStatus[c])
         => <<credStatus[c], credStatus'[c]>> \in {<<ActiveCredential, ExpiredCredential>>,
                                                   <<ActiveCredential, RevokedCredential>>,
                                                   <<RevokeCredential, RevokedCredential>>}]_vars

\* C10 (as stated): no item is in the batch of two in-progress runs of
\* different job kinds.
C10_BatchesDisjoint ==
  \A p, q \in Procs :
    (JobOf(p) # JobOf(q) /\ pc[p] = "loop" /\ pc[q] = "loop") => BatchIds(p) \cap BatchIds(q) = {}

OtherCredJob(j) == IF j = credentialRenewalJobName THEN credentialRevocationJobName
                   ELSE credentialRenewalJobName

\* C10 (amended): at the moment a credential job selects its batch, no
\* selected credential satisfies the selection predicate of the other
\* credential job (active against revoke); nothing keeps the batches of
\* overlapping runs apart after that, and the token predicates overlap.
C10_CredSelectionDisjoint ==
  [][\A p \in Procs :
       (JobOf(p) \in CredJobs /\ pc[p] = "select" /\ pc'[p] = "loop")
         => \A k \in 1..Len(batch'[p]) : batch'[p][k].id \notin Where(OtherCredJob(JobOf(p)))]_vars

C10_Witness ==
  \E p, q \in Procs :
    /\ JobOf(p) = credentialRenewalJobName /\ pc[p] = "loop" /\ batch[p] # <<>>
    /\ JobOf(q) = credentialRevocationJobName /\ pc[q] = "loop" /\ batch[q] # <<>>

RevocationJobs == {tokenRevocationJobName, credentialRevocationJobName}

ItemStatus(j, id) == IF j \in TokenJobs THEN tokStatus[id] ELSE credStatus[id]

\* C11: revocation is idempotent across successive runs: a revocation job
\* never processes (no revoke call, no write) an item whose status is already
\* revoked, no item still to be processed in its batch is revoked, and when
\* every item is revoked the run selects zero candidates.
C11_RevocationIdempotent ==
  /\ (lastItem.kind = "item" /\ JobOf(lastItem.proc) \in RevocationJobs)
       => lastItem.prev # RevokedToken
  /\ \A p \in Procs :
       (JobOf(p) \in RevocationJobs /\ pc[p] = "loop")
         => /\ \A k \in idx[p]..Len(batch[p]) :
                 ItemStatus(JobOf(p), batch[p][k].id) # RevokedToken
            /\ (idx[p] = 1 /\ \A i \in (IF JobOf(p) \in TokenJobs THEN Tokens ELSE Creds) :
                                ItemStatus(JobOf(p), i) = RevokedToken)
                 => batch[p] = <<>>

C11_Witness ==
  \E p \in Procs :
    /\ JobOf(p) = tokenRevocationJobName
    /\ pc[p] = "loop"
    /\ batch[p] = <<>>
    /\ \A t \in Tokens : tokStatus[t] = RevokedToken

\* C12: one invocation of the token renewal Run visits each selected token
\* at most once (its batch holds no token twice and the loop handles the
\* batch position by position, with at most one write per token), and the
\* visit leaves the token in exactly one of: status and expiration
\* unchanged, a new expiration not earlier than now, or status expired.
C12_RenewalVisitsOnce ==
  /\ [](\A p \in Procs :
          JobOf(p) = tokenRenewalJobName
            => \A k1, k2 \in 1..Len(batch[p]) : k1 # k2 => batch[p][k1].id # batch[p][k2].id)
  /\ [][\A p \in Procs :
          (lastItem'.kind = "item" /\ lastItem'.proc = p /\ JobOf(p) = tokenRenewalJobName)
            => LET t == lastItem'.item
               IN /\ t = batch[p][idx[p]].id
                  /\ idx'[p] = idx[p] + 1
                  /\ Len(lastItem'.writes) <= 1
                  /\ \A u \in Tokens \ {t} : tokStatus'[u] = tokStatus[u] /\ tokExp'[u] = tokExp[u]
                  /\ \/ tokStatus'[t] = tokStatus[t] /\ tokExp'[t] = tokExp[t]
                     \/ tokStatus'[t] = tokStatus[t] /\ tokExp'[t] # tokExp[t] /\ tokExp'[t] >= now
                     \/ /\ tokStatus'[t] = ExpiredToken /\ tokStatus[t] # ExpiredToken
                        /\ tokExp'[t] = tokExp[t]]_vars

C12_Witness ==
  /\ lastItem.kind = "item"
  /\ JobOf(lastItem.proc) = tokenRenewalJobName
  /\ lastItem.out = "ok"
  /\ lastItem.rows = 1
  /\ idx[lastItem.proc] = 3
  /\ \E ttl \in TTLs : tokExp[lastItem.item] = now + ttl
  /\ \E u \in Tokens : tokStatus[u] = ExpiredToken

\* C13: a Run that returns before the loop (context canceled before the
\* batch query, or the batch query failed) returns an error, processes no
\* item, writes nothing and leaves both progress counters as they were.
C13_FailureBeforeLoopKeepsCounters ==
  [][\A p \in Procs :
       (pc[p] = "select" /\ pc'[p] = "idle")
         => /\ lastReturn'.kind = "return" /\ lastReturn'.proc = p
            /\ lastReturn'.result \in {"canceled", "searchFailed"}
            /\ lastReturn'.attempted = 0
            /\ lastItem'.kind = "none"
            /\ tokVars' = tokVars /\ credVars' = credVars
            /\ numTotal' = numTotal /\ numProcessed' = numProcessed]_vars

C13_Witness ==
  /\ lastReturn.kind = "return"
  /\ lastReturn.result = "searchFailed"
  /\ ~lastReturn.selected
  /\ numTotal[JobOf(lastReturn.proc)] = 2
  /\ numProcessed[JobOf(lastReturn.proc)] = 2

\* C14: the context is read before each item; a Run whose context is found
\* canceled in the loop returns the cancellation error without processing
\* the item in hand or any later one, keeps the writes made for the earlier
\* items of the batch, and leaves the processed counter at the number of
\* items completed before the cancellation.
C14_CancelStopsBeforeItem ==
  [][\A p \in Procs :
       (pc[p] = "loop" /\ pc'[p] = "idle" /\ lastReturn'.result = "canceled")
         => /\ idx[p] <= Len(batch[p])
            /\ lastItem'.kind = "none"
            /\ tokVars' = tokVars /\ credVars' = credVars
            /\ lastReturn'.attempted = idx[p] - 1
            /\ numProcessed'[JobOf(p)] = idx[p] - 1
            /\ numTotal'[JobOf(p)] = Len(batch[p])]_vars

C14_Witness ==
  /\ lastReturn.kind = "return"
  /\ lastReturn.result = "canceled"
  /\ lastReturn.selected
  /\ lastReturn.attempted = 1
  /\ lastReturn.total = 2
  /\ numProcessed[JobOf(lastReturn.proc)] = 1
  /\ ItemStatus(JobOf(lastReturn.proc), 1) \in {ExpiredToken, RevokedToken}

\* C15: NextRunIn of the two renewal jobs never returns a negative
\* duration: for a time until renewal that is negative it returns exactly 0
\* and no error, for a non-negative one it returns that many seconds and no
\* error.
C15_NextRunInNotNegative ==
  (nextRun.kind = "call" /\ nextRun.job \in RenewalJobs)
    => /\ nextRun.dur >= 0
       /\ (nextRun.query.kind = "row" /\ nextRun.query.renewalIn < 0)
            => (nextRun.dur = 0 /\ ~nextRun.err)
       /\ (nextRun.query.kind = "row" /\ nextRun.query.renewalIn >= 0)
            => (nextRun.dur = nextRun.query.renewalIn * Second /\ ~nextRun.err)

C15_Witness ==
  /\ nextRun.kind = "call"
  /\ nextRun.job = credentialRenewalJobName
  /\ nextRun.query.kind = "row"
  /\ nextRun.query.renewalIn = 0 - MaxRenewalIn
  /\ nextRun.dur = 0
  /\ ~nextRun.err

\* C16: NextRunIn of the two renewal jobs returns the fallback of 5 minutes
\* and no error when the query yields no row, the same fallback and an error
\* when the query or the scan of the row fails, and never an error with
\* another duration.
C16_NextRunInFallback ==
  (nextRun.kind = "call" /\ nextRun.job \in RenewalJobs)
    => /\ nextRun.query.kind = "noRow"
            => (nextRun.dur = defaultNextRunIn * Minute /\ ~nextRun.err)
       /\ nextRun.query.kind \in {"queryErr", "scanErr"}
            => (nextRun.dur = defaultNextRunIn * Minute /\ nextRun.err)
       /\ nextRun.err => nextRun.dur = defaultNextRunIn * Minute
       /\ nextRun.err <=> nextRun.query.kind \in {"queryErr", "scanErr"}

C16_Witness ==
  /\ nextRun.kind = "call"
  /\ nextRun.job = tokenRenewalJobName
  /\ nextRun.query.kind = "scanErr"
  /\ nextRun.err
  /\ nextRun.dur = 5 * 60 * 1000

\* C17 (as stated): the counters are reset to (0, 0) at the start of each
\* Run, so that while a Run is in progress Status reports that run's progress:
\* (0, 0) until the batch is selected, then (items done, items selected).
C17_ResetAtStart ==
  \A p \in Procs :
    /\ pc[p] = "select" => (numProcessed[JobOf(p)] = 0 /\ numTotal[JobOf(p)] = 0)
    /\ pc[p] = "loop" => (numProcessed[JobOf(p)] = idx[p] - 1 /\ numTotal[JobOf(p)] = Len(batch[p]))

\* C17 (amended): passing the guard leaves the counters as they are; they
\* are set to (0, number of items selected) once the batch has been selected
\* and before any item is processed, so Status reports the previous tally
\* until the selection has succeeded and this run's progress from then on.
C17_ResetAfterSelection ==
  [][\A p \in Procs :
       /\ (pc[p] = "cas" /\ pc'[p] = "select")
            => (numProcessed' = numProcessed /\ numTotal' = numTotal)
       /\ (pc[p] = "select" /\ pc'[p] = "loop")
            => /\ numProcessed'[JobOf(p)] = 0
               /\ numTotal'[JobOf(p)] = Len(batch'[p])
               /\ idx'[p] = 1
               /\ lastItem'.kind = "none"]_vars

C17_Witness ==
  \E p \in Procs :
    /\ JobOf(p) = tokenRenewalJobName
    /\ pc[p] = "loop"
    /\ idx[p] = 1
    /\ numProcessed[JobOf(p)] = 0
    /\ numTotal[JobOf(p)] = 2
    /\ \E ttl \in TTLs : tokExp[1] = ttl /\ tokLast[1] = 0

\* C18: each item of the batch raises the processed counter by exactly one
\* whatever its outcome; while the loop runs the total is the number of items
\* selected (at most the limit) and the processed counter the number of items
\* done; after a Run that returns nil Status reports (n, n), n being the
\* number of items selected.
C18_CountersFollowItems ==
  /\ [][\A p \in Procs :
          (lastItem'.kind = "item" /\ lastItem'.proc = p)
            => /\ numProcessed'[JobOf(p)] = numProcessed[JobOf(p)] + 1
               /\ numTotal' = numTotal]_vars
  /\ [](\A p \in Procs :
          pc[p] = "loop"
            => /\ numTotal[JobOf(p)] = Len(batch[p])
               /\ numTotal[JobOf(p)] <= Limit
               /\ numProcessed[JobOf(p)] = idx[p] - 1)
  /\ []((lastReturn.kind = "return" /\ lastReturn.result = "nil")
          => /\ numProcessed[JobOf(lastReturn.proc)] = lastReturn.total
             /\ numTotal[JobOf(lastReturn.proc)] = lastReturn.total)

C18_Witness ==
  /\ lastReturn.kind = "return"
  /\ lastReturn.result = "nil"
  /\ JobOf(lastReturn.proc) = credentialRevocationJobName
  /\ lastReturn.total = 1
  /\ ~lastReturn.badWrite
  /\ numProcessed[credentialRevocationJobName] = 1
  /\ numTotal[credentialRevocationJobName] = 1
  /\ credStatus[1] = RevokedCredential
  /\ credStatus[2] = ActiveCredential

\* C19: within one Run the items are processed one at a time in the order
\* of the selection: a step of the loop handles the item at the position of
\* the loop and no other, its write and its counter increment are in place
\* when the step ends, and the loop then moves to the next position.
C19_ItemsInSelectionOrder ==
  [][\A p \in Procs :
       (lastItem'.kind = "item" /\ lastItem'.proc = p)
         => LET i == lastItem'.item
                w == lastItem'.writes
            IN /\ pc[p] = "loop" /\ idx[p] \in 1..Len(batch[p])
               /\ i = batch[p][idx[p]].id
               /\ idx'[p] = idx[p] + 1
               /\ batch'[p] = batch[p]
               /\ numProcessed'[JobOf(p)] = numProcessed[JobOf(p)] + 1
               /\ \A u \in Tokens :
                    (JobOf(p) \in CredJobs \/ u # i) => (tokStatus'[u] = tokStatus[u] /\ tokExp'[u] = tokExp[u])
               /\ \A c \in Creds :
                    (JobOf(p) \in TokenJobs \/ c # i) => (credStatus'[c] = credStatus[c] /\ credExp'[c] = credExp[c])
               /\ (w # <<>> /\ w[1].col = "status" /\ lastItem'.rows >= 1)
                    => (IF JobOf(p) \in TokenJobs THEN tokStatus'[i] ELSE credStatus'[i]) = w[1].status]_vars

C19_Witness ==
  /\ lastItem.kind = "item"
  /\ JobOf(lastItem.proc) = credentialRevocationJobName
  /\ lastItem.item = 2
  /\ idx[lastItem.proc] = 3
  /\ numProcessed[credentialRevocationJobName] = 2
  /\ credStatus[1] = RevokedCredential
  /\ credStatus[2] = RevokedCredential

\* the failures of an item that are not the job's classified outcome
Recoverable(j) ==
  PrepareFailures \cup
    (CASE j = tokenRenewalJobName -> {"badRequest", "otherErr", "ttlErr"}
       [] j = tokenRevocationJobName -> {"badRequest", "otherErr"}
       [] j = credentialRenewalJobName -> {"forbidden", "otherErr"}
       [] j = credentialRevocationJobName -> {"forbidden", "badRequest", "otherErr"})

\* C20: an item whose processing fails with a recoverable failure (key
\* lookup, decryption, client construction, or a backend failure that is not
\* the job's classified outcome) gets no write: the failure is reported to
\* the loop, which goes on; every row keeps its status and expiration; and an
\* item that satisfied the selection predicate of the job before the failure
\* satisfies it after the failure too, so the next run selects it again.
C20_RecoverableLeavesItem ==
  [][\A p \in Procs :
       (lastItem'.kind = "item" /\ lastItem'.proc = p /\ lastItem'.out \in Recoverable(JobOf(p)))
         => /\ lastItem'.writes = <<>>
            /\ lastItem'.err
            /\ pc'[p] = "loop"
            /\ tokVars' = tokVars /\ credVars' = credVars
            /\ lastItem'.item \in Where(JobOf(p)) => lastItem'.item \in Where(JobOf(p))']_vars

C20_Witness ==
  /\ lastItem.kind = "item"
  /\ JobOf(lastItem.proc) = credentialRenewalJobName
  /\ lastItem.out = "otherErr"
  /\ lastItem.err
  /\ credStatus[lastItem.item] = ActiveCredential
  /\ lastItem.item \in Where(credentialRenewalJobName)

\* C21: the credential revocation job writes status revoked for a selected
\* credential exactly when its revoke-lease call succeeded; after any failure
\* of the call, a 403 included, it issues no write, reports the error and the
\* credential stays in revoke.
C21_RevokedIffLeaseRevoked ==
  (lastItem.kind = "item" /\ JobOf(lastItem.proc) = credentialRevocationJobName)
    => /\ lastItem.writes = <<StatusWrite(RevokedCredential)>> <=> lastItem.out = "ok"
       /\ lastItem.out # "ok"
            => /\ lastItem.writes = <<>>
               /\ lastItem.err
               /\ credStatus[lastItem.item] = RevokeCredential
       /\ (lastItem.out = "ok" /\ ~lastItem.execErr /\ lastItem.rows = 1)
            => (~lastItem.err /\ credStatus[lastItem.item] = RevokedCredential)

C21_Witness ==
  /\ lastItem.kind = "item"
  /\ JobOf(lastItem.proc) = credentialRevocationJobName
  /\ lastItem.out = "forbidden"
  /\ lastItem.prev = RevokeCredential
  /\ credStatus[lastItem.item] = RevokeCredential
  /\ \E c \in Creds : credStatus[c] = RevokedCredential

\* C22: in the token renewal job a successful renew-self whose TTL can be
\* read leads to exactly one write for the token, the write of its
\* expiration; when the write affects one row the expiration is now plus the
\* TTL the backend returned, the status is what it was and no error is
\* reported.
C22_RenewalWritesNowPlusTTL ==
  (lastItem.kind = "item" /\ JobOf(lastItem.proc) = tokenRenewalJobName /\ lastItem.out = "ok")
    => /\ Len(lastItem.writes) = 1
       /\ \E ttl \in TTLs :
            /\ lastItem.writes = <<ExpirationWrite(ttl)>>
            /\ (~lastItem.execErr /\ lastItem.rows = 1)
                 => /\ ~lastItem.err
                    /\ tokExp[lastItem.item] = now + ttl
                    /\ tokLast[lastItem.item] = now
                    /\ tokStatus[lastItem.item] = lastItem.prev

C22_Witness ==
  /\ lastItem.kind = "item"
  /\ JobOf(lastItem.proc) = tokenRenewalJobName
  /\ lastItem.out = "ok"
  /\ lastItem.rows = 1
  /\ now = 1
  /\ lastItem.prev = CurrentToken
  /\ tokStatus[lastItem.item] = CurrentToken
  /\ tokExp[lastItem.item] = 21
  /\ numTotal[tokenRenewalJobName] = 2

\* C23: the credential renewal job asks renew-lease for the stored
\* expiration minus the stored last renewal time of the credential, as they
\* were read by the selection of the run; after a successful call it writes
\* the expiration, and when the write affects one row the expiration is now
\* plus the duration the backend granted, the status is still active and no
\* error is reported.
C23_LeaseDurationRecomputed ==
  /\ \A p \in Procs :
       (JobOf(p) = credentialRenewalJobName /\ pc[p] = "loop")
         => \A k \in idx[p]..Len(batch[p]) :
              /\ batch[p][k].exp = credExp[batch[p][k].id]
              /\ batch[p][k].last = credLast[batch[p][k].id]
  /\ (lastItem.kind = "item" /\ JobOf(lastItem.proc) = credentialRenewalJobName
        /\ lastItem.out \notin PrepareFailures)
       => LET s == batch[lastItem.proc][idx[lastItem.proc] - 1]
          IN /\ s.id = lastItem.item
             /\ lastItem.requested = s.exp - s.last
             /\ lastItem.out = "ok"
                  => \E granted \in TTLs :
                       /\ lastItem.writes = <<ExpirationWrite(granted)>>
                       /\ (~lastItem.execErr /\ lastItem.rows = 1)
                            => /\ ~lastItem.err
                               /\ credExp[lastItem.item] = now + granted
                               /\ credLast[lastItem.item] = now
                               /\ credStatus[lastItem.item] = ActiveCredential

C23_Witness ==
  /\ lastItem.kind = "item"
  /\ JobOf(lastItem.proc) = credentialRenewalJobName
  /\ lastItem.out = "ok"
  /\ lastItem.rows = 1
  /\ now = 1
  /\ lastItem.requested = 10
  /\ credLast[lastItem.item] = 1
  /\ credExp[lastItem.item] = 21
  /\ credStatus[lastItem.item] = ActiveCredential

\* C24: every token in the batch of a token revocation run had, when the
\* run selected it, status maintaining and no active credential issued under
\* it (so no current, expired or revoked token and no maintaining token with
\* an active credential is selected), and the run calls revoke-self and
\* writes revoked only for tokens of its batch.
C24_RevocationSelectsUnusedMaintaining ==
  [][\A p \in Procs :
       JobOf(p) = tokenRevocationJobName
         => /\ (pc[p] = "select" /\ pc'[p] = "loop")
                 => \A k \in 1..Len(batch'[p]) :
                      LET t == batch'[p][k].id
                      IN /\ tokStatus[t] = MaintainingToken
                         /\ \A c \in Creds : credTokenHmac(c) = t => credStatus[c] # ActiveCredential
            /\ (lastItem'.kind = "item" /\ lastItem'.proc = p)
                 => /\ lastItem'.item \in BatchIds(p)
                    /\ \A t \in Tokens \ {lastItem'.item} : tokStatus'[t] = tokStatus[t]]_vars

C24_Witness ==
  /\ lastItem.kind = "item"
  /\ JobOf(lastItem.proc) = tokenRevocationJobName
  /\ lastItem.out = "ok"
  /\ lastItem.prev = MaintainingToken
  /\ tokStatus[lastItem.item] = RevokedToken
  /\ \A c \in Creds : credTokenHmac(c) = lastItem.item => credStatus[c] = RevokeCredential

\* C25: in the token renewal and token revocation jobs a selected store
\* that holds no token is skipped: no backend call and no write is made for
\* it, no error is reported, the token rows stay as they were, and the item
\* is counted as processed like any other.
C25_NoTokenSkipped ==
  (lastItem.kind = "item" /\ lastItem.out = "noToken")
    => LET p == lastItem.proc
       IN /\ JobOf(p) \in TokenJobs
          /\ ~lastItem.called
          /\ lastItem.writes = <<>>
          /\ ~lastItem.err
          /\ tokStatus[lastItem.item] = lastItem.prev
          /\ pc[p] = "loop"
          /\ batch[p][idx[p] - 1].id = lastItem.item
          /\ numProcessed[JobOf(p)] = idx[p] - 1

C25_Witness ==
  /\ lastItem.kind = "item"
  /\ lastItem.out = "noToken"
  /\ JobOf(lastItem.proc) = tokenRenewalJobName
  /\ numProcessed[tokenRenewalJobName] = 2
  /\ numTotal[tokenRenewalJobName] = 2
  /\ \A t \in Tokens : tokStatus[t] \in {CurrentToken, MaintainingToken} /\ tokExp[t] = 10

\* C26: Extract never returns a partial result: it returns a pair whose
\* username and password are both non-empty, or ("", ""). When both
\* attributes are non-empty strings at the top level of the map it returns
\* that pair; otherwise it returns a pair only when the top-level keys are
\* limited to data and metadata, both present and both maps, and the pair
\* is the one found under data (and it does return it when both maps are
\* non-nil and both attributes are non-empty strings there).
TopLevelPair(d, ua, pa) == d[ua].t = "str" /\ d[ua].s # 0 /\ d[pa].t = "str" /\ d[pa].s # 0

KV2Shape(d) ==
  /\ \A k \in TopKeys : d[k].t # "absent" => k \in {"data", "metadata"}
  /\ d["data"].t \in {"map", "nilmap"}
  /\ d["metadata"].t \in {"map", "nilmap"}

EmbeddedPair(d, ua, pa) ==
  /\ ua \in InnerKeys /\ d["data"].m[ua].t = "str" /\ d["data"].m[ua].s # 0
  /\ pa \in InnerKeys /\ d["data"].m[pa].t = "str" /\ d["data"].m[pa].s # 0

C26_ExtractNeverPartial ==
  extractCall.kind = "done" =>
    LET d == extractCall.d
        ua == extractCall.usernameAttr
        pa == extractCall.passwordAttr
        u == extractCall.username
        p == extractCall.password
    IN /\ (u = 0) <=> (p = 0)
       /\ TopLevelPair(d, ua, pa) => (u = d[ua].s /\ p = d[pa].s)
       /\ (~TopLevelPair(d, ua, pa) /\ u # 0)
            => /\ KV2Shape(d)
               /\ EmbeddedPair(d, ua, pa)
               /\ u = d["data"].m[ua].s
               /\ p = d["data"].m[pa].s
       /\ (/\ ~TopLevelPair(d, ua, pa)
           /\ KV2Shape(d)
           /\ d["data"].t = "map"
           /\ d["metadata"].t = "map"
           /\ EmbeddedPair(d, ua, pa))
            => (u = d["data"].m[ua].s /\ p = d["data"].m[pa].s)

\* a secret of the KV-v2 shape whose embedded data holds the pair
C26_Witness ==
  /\ extractCall.kind = "done"
  /\ ~TopLevelPair(extractCall.d, extractCall.usernameAttr, extractCall.passwordAttr)
  /\ KV2Shape(extractCall.d)
  /\ extractCall.usernameAttr = "username"
  /\ extractCall.passwordAttr = "password"
  /\ extractCall.username # 0
  /\ extractCall.password # 0

\* C27: LookupUser returns (nil, nil) when the requested user, looked up
\* by public id or by name, is not found in the repository.
RequestedUserMissing ==
  /\ ~lookupCall.dbErr
  /\ \/ /\ lookupCall.withPublicId # 0
        /\ lookupCall.rows[lookupCall.withPublicId] = 0
     \/ /\ lookupCall.withPublicId = 0
        /\ lookupCall.withName # 0
        /\ \A id \in PublicIds : lookupCall.rows[id] # lookupCall.withName

C27_NotFoundReturnsNilNil ==
  (lookupCall.kind = "done" /\ RequestedUserMissing)
    => (lookupCall.user = NilUser /\ lookupCall.err = "nil")

\* C28: for every job instance, in every reachable state and under any
\* interleaving of Run invocations on it, the counters read by Status
\* satisfy 0 <= Completed <= Total.
C28_CompletedWithinTotal ==
  \A j \in Jobs : 0 <= numProcessed[j] /\ numProcessed[j] <= numTotal[j]

\* C29: the running flag of a job instance is true whenever an invocation
\* of Run on it is between passing the guard and returning, and false
\* whenever none is in progress; the return of one invocation never clears
\* the flag while another invocation that passed the guard is executing.
C29_FlagHeldWhilePastGuard ==
  /\ \A j \in Jobs : PastGuard(j) # {} => running[j]
  /\ \A j \in Jobs : {p \in InFlight : JobOf(p) = j} = {} => ~running[j]
  /\ (lastReturn.kind = "return" /\ PastGuard(JobOf(lastReturn.proc)) # {})
       => running[JobOf(lastReturn.proc)]

\* C30: a Run that is rejected with the "already running" error changes
\* nothing: the running flag, the progress counters and the rows are left
\* as they were, and the invocation has made no selection and processed no
\* item (no decryption, backend call or write).
C30_RejectedChangesNothing ==
  [][(lastReturn'.kind = "return" /\ lastReturn'.result = "JobAlreadyRunning")
       => /\ running' = running
          /\ numTotal' = numTotal
          /\ numProcessed' = numProcessed
          /\ tokVars' = tokVars
          /\ credVars' = credVars
          /\ ~lastReturn'.selected
          /\ lastReturn'.total = 0
          /\ lastReturn'.attempted = 0
          /\ lastItem'.kind = "none"
          /\ ~lastItem'.called
          /\ lastItem'.writes = <<>>]_vars

\* an invocation is rejected while the invocation that holds the flag is
\* processing its items
C30_Witness ==
  /\ lastReturn.kind = "return"
  /\ lastReturn.result = "JobAlreadyRunning"
  /\ running[JobOf(lastReturn.proc)]
  /\ \E q \in Procs : /\ JobOf(q) = JobOf(lastReturn.proc)
                      /\ pc[q] = "loop"
                      /\ numTotal[JobOf(q)] = 1

\* C31: every Run terminates when its collaborator calls return: an
\* invocation in progress eventually returns; it handles the positions of
\* its batch one after the other, each once, so it processes at most as
\* many items as it selected; an item costs at most one backend call and
\* at most one write; the invocation selects once and its batch, which
\* holds no item twice, is not changed while it is processed.
C31_RunTerminates ==
  /\ \A p \in Procs : (pc[p] # "idle") ~> (pc[p] = "idle")
  /\ [](\A p \in Procs :
          /\ pc[p] = "loop" => (1 <= idx[p] /\ idx[p] <= Len(batch[p]) + 1)
          /\ \A k1, k2 \in 1..Len(batch[p]) : k1 # k2 => batch[p][k1].id # batch[p][k2].id)
  /\ [](lastReturn.kind = "return" => lastReturn.attempted <= lastReturn.total)
  /\ [](lastItem.kind = "item"
          => /\ Len(lastItem.writes) <= 1
             /\ lastItem.out \in PrepareFailures \cup {"noToken"}
                  => (~lastItem.called /\ lastItem.writes = <<>>))
  /\ [][\A p \in Procs :
          /\ (lastItem'.kind = "item" /\ lastItem'.proc = p)
               => /\ pc[p] = "loop"
                  /\ lastItem'.item = batch[p][idx[p]].id
                  /\ pc'[p] = "loop" => (idx'[p] = idx[p] + 1 /\ batch'[p] = batch[p])
          /\ pc[p] = "loop" => pc'[p] \in {"loop", "idle"}
          /\ (pc[p] = "loop" /\ pc'[p] = "loop")
               => (batch'[p] = batch[p] /\ idx'[p] >= idx[p])]_vars

\* a Run that selected Limit items has processed them all and returned
C31_Witness ==
  /\ lastReturn.kind = "return"
  /\ lastReturn.result = "nil"
  /\ lastReturn.total = Limit
  /\ lastReturn.attempted = Limit
  /\ pc[lastReturn.proc] = "idle"

====
